---------------------------- MODULE Spec2Model ----------------------------
(***************************************************************************)
(* SortedMapExt for BTreeMap<K, V> (src/src/sortedmap.rs): the navigation  *)
(* queries first/last/ceiling/floor/higher/lower, their *_remove forms,    *)
(* and the three range iterators, over a map with u32-like keys.           *)
(*                                                                         *)
(* A map is a function whose DOMAIN is its key set.  Option values are     *)
(* sequences of length <= 1: None is <<>>, Some(x) is <<x>>.               *)
(***************************************************************************)
EXTENDS Integers, Sequences, FiniteSets

\* Bounds of the model: keys stored are 1..MaxKey, values are 1..MaxVal, and
\* a run of first_remove (or last_remove) calls goes on until MaxNone of
\* them have returned None.
MaxKey == 2
MaxVal == 2
MaxNone == 2

Keys == 1..MaxKey
Vals == 1..MaxVal
\* Keys used as arguments: every storable key and one above them all, so
\* that a query can fall on a key, between keys, before the first key of a
\* map (a map need not hold key 1) or beyond the last.
QueryKeys == 1..(MaxKey + 1)

None == <<>>
Some(x) == <<x>>
is_some(o) == Len(o) = 1
unwrap(o) == o[1]

EmptyMap == [k \in {} |-> 0]

\* The maps a BTreeMap<K, V> can hold within the bounds.
Maps == UNION {[S -> Vals] : S \in SUBSET Keys}

(***************************************************************************)
(* The BTreeMap primitives the layer calls.                                *)
(***************************************************************************)

\* BTreeMap::insert: used by the tests' collect() to build a map.
insert(m, key, val) ==
    [k \in (DOMAIN m) \cup {key} |-> IF k = key THEN val ELSE m[k]]

\* BTreeMap::remove: the value removed (None when key is absent) and the map
\* without key.
remove(m, key) ==
    IF key \in DOMAIN m
    THEN [val |-> Some(m[key]), map |-> [k \in (DOMAIN m) \ {key} |-> m[k]]]
    ELSE [val |-> None, map |-> m]

RECURSIVE Ascending(_)
Ascending(S) ==
    IF S = {} THEN <<>>
    ELSE LET lo == CHOOSE x \in S : \A y \in S : x <= y
         IN <<lo>> \o Ascending(S \ {lo})

\* BTreeMap::keys: the keys in ascending order.
keys(m) == Ascending(DOMAIN m)

\* Iterator::min: a fold keeping the smaller element; None on an empty
\* iterator.
RECURSIVE min_fold(_, _)
min_fold(acc, s) ==
    IF s = <<>> THEN acc
    ELSE min_fold(IF Head(s) < acc THEN Head(s) ELSE acc, Tail(s))

min(s) == IF s = <<>> THEN None ELSE Some(min_fold(Head(s), Tail(s)))

\* Iterator::max: a fold keeping the greater element; None on an empty
\* iterator.
RECURSIVE max_fold(_, _)
max_fold(acc, s) ==
    IF s = <<>> THEN acc
    ELSE max_fold(IF Head(s) >= acc THEN Head(s) ELSE acc, Tail(s))

max(s) == IF s = <<>> THEN None ELSE Some(max_fold(Head(s), Tail(s)))

\* Iterator::filter is SelectSeq: the elements satisfying the closure, in
\* their order.

(***************************************************************************)
(* sortedmap_impl: the read-only queries.                                  *)
(***************************************************************************)

\* first() taking the other end of the keys.
first_max(m) == max(keys(m))
first(m) == min(keys(m))

last(m) == max(keys(m))

\* ceiling() with the comparison of higher().
ceiling_strict(m, key) == min(SelectSeq(keys(m), LAMBDA k : k > key))
ceiling(m, key) == min(SelectSeq(keys(m), LAMBDA k : k >= key))

floor(m, key) == max(SelectSeq(keys(m), LAMBDA k : k <= key))

higher(m, key) == min(SelectSeq(keys(m), LAMBDA k : k > key))

lower(m, key) == max(SelectSeq(keys(m), LAMBDA k : k < key))

(***************************************************************************)
(* sortedmap_impl: the destructive queries.  Each is                       *)
(*     if let Some(key) = self.Q(..).cloned() {                            *)
(*         let val = self.remove(&key);                                    *)
(*         assert!(val.is_some());                                         *)
(*         Some((key, val.unwrap()))                                       *)
(*     } else { None }                                                     *)
(* The result is the map after the call, the value returned, and whether   *)
(* the assertion failed (the call then panics and returns nothing).        *)
(***************************************************************************)

remove_located(m, located) ==
    IF is_some(located)
    THEN LET key == unwrap(located)
             r   == remove(m, key)
         IN IF is_some(r.val)
            THEN [map |-> r.map, ret |-> Some(<<key, unwrap(r.val)>>),
                  assert_failed |-> FALSE]
            ELSE [map |-> r.map, ret |-> None, assert_failed |-> TRUE]
    ELSE [map |-> m, ret |-> None, assert_failed |-> FALSE]

\* first_remove() locating with last().
first_remove_last(m) == remove_located(m, last(m))
first_remove(m) == remove_located(m, first(m))

last_remove(m) == remove_located(m, last(m))

ceiling_remove(m, key) == remove_located(m, ceiling(m, key))

floor_remove(m, key) == remove_located(m, floor(m, key))

\* higher_remove() locating with ceiling().
higher_remove_ceiling(m, key) == remove_located(m, ceiling(m, key))
higher_remove(m, key) == remove_located(m, higher(m, key))

\* lower_remove with the query key removed in place of the located key.
lower_remove_arg(m, key) ==
    IF is_some(lower(m, key))
    THEN LET r == remove(m, key)
         IN IF is_some(r.val)
            THEN [map |-> r.map, ret |-> Some(<<key, unwrap(r.val)>>),
                  assert_failed |-> FALSE]
            ELSE [map |-> r.map, ret |-> None, assert_failed |-> TRUE]
    ELSE [map |-> m, ret |-> None, assert_failed |-> FALSE]
lower_remove(m, key) == remove_located(m, lower(m, key))

(***************************************************************************)
(* Range bounds and the BTreeMap range primitives.                         *)
(***************************************************************************)

Included(k) == [bound |-> "Included", key |-> k]
Excluded(k) == [bound |-> "Excluded", key |-> k]

above(k, lo) == IF lo.bound = "Included" THEN k >= lo.key ELSE k > lo.key
below(k, hi) == IF hi.bound = "Included" THEN k <= hi.key ELSE k < hi.key

\* BTreeMap::range(min, max): a double-ended cursor over the keys within the
\* bounds, ascending.  The source passes its arguments through unchecked and
\* BTreeMap states no result for min > max: a std release either hands back
\* an empty range or panics ("range start is greater than range end").  Both
\* outcomes are kept; for min <= max there is one outcome.
range(m, lo, hi) ==
    {[panic |-> FALSE,
      keys |-> SelectSeq(keys(m), LAMBDA k : above(k, lo) /\ below(k, hi))]}
    \cup (IF lo.key > hi.key THEN {[panic |-> TRUE, keys |-> <<>>]} ELSE {})

\* BTreeMap::range_mut: the same cursor, handing out &mut V.
range_mut(m, lo, hi) == range(m, lo, hi)

\* An iterator: which struct it is, the keys its cursor has yet to yield,
\* and for the by-value iterator the BTreeMap it owns and its length counter.
NoIter == [kind |-> "none", keys |-> <<>>, owned |-> EmptyMap, length |-> 0]

\* btree_map::Range / RangeMut ::next and ::next_back over map m.
Range_next(it, m) ==
    IF it.keys = <<>> THEN [iter |-> it, item |-> None]
    ELSE [iter |-> [it EXCEPT !.keys = Tail(@)],
          item |-> Some(<<Head(it.keys), m[Head(it.keys)]>>)]

Range_next_back(it, m) ==
    IF it.keys = <<>> THEN [iter |-> it, item |-> None]
    ELSE LET n == Len(it.keys)
         IN [iter |-> [it EXCEPT !.keys = SubSeq(@, 1, n - 1)],
             item |-> Some(<<it.keys[n], m[it.keys[n]]>>)]

\* BTreeMap::into_iter and btree_map::IntoIter ::next, ::next_back, ::len,
\* ::size_hint.
into_iter(m) ==
    [kind |-> "BTreeMapRangeRemoveIter", keys |-> keys(m), owned |-> m,
     length |-> Cardinality(DOMAIN m)]

IntoIter_next(it) ==
    IF it.length = 0 THEN [iter |-> it, item |-> None]
    ELSE [iter |-> [it EXCEPT !.keys = Tail(@), !.length = @ - 1],
          item |-> Some(<<Head(it.keys), it.owned[Head(it.keys)]>>)]

IntoIter_next_back(it) ==
    IF it.length = 0 THEN [iter |-> it, item |-> None]
    ELSE LET n == Len(it.keys)
         IN [iter |-> [it EXCEPT !.keys = SubSeq(@, 1, n - 1), !.length = @ - 1],
             item |-> Some(<<it.keys[n], it.owned[it.keys[n]]>>)]

IntoIter_len(it) == it.length

IntoIter_size_hint(it) == <<it.length, Some(it.length)>>

(***************************************************************************)
(* impl SortedMapExt for BTreeMap: the range operations.  Each yields the  *)
(* set of its possible outcomes.                                           *)
(***************************************************************************)

\* range_iter() with the upper bound Included.
range_iter_to_included(m, from_key, to_key) ==
    {[panic |-> r.panic,
      iter |-> [NoIter EXCEPT !.kind = "BTreeMapRangeIter", !.keys = r.keys]] :
        r \in range(m, Included(from_key), Included(to_key))}
range_iter(m, from_key, to_key) ==
    {[panic |-> r.panic,
      iter |-> [NoIter EXCEPT !.kind = "BTreeMapRangeIter", !.keys = r.keys]] :
        r \in range(m, Included(from_key), Excluded(to_key))}

\* range_iter_mut() with the upper bound Included.
range_iter_mut_to_included(m, from_key, to_key) ==
    {[panic |-> r.panic,
      iter |-> [NoIter EXCEPT !.kind = "BTreeMapRangeIterMut", !.keys = r.keys]] :
        r \in range_mut(m, Included(from_key), Included(to_key))}
range_iter_mut(m, from_key, to_key) ==
    {[panic |-> r.panic,
      iter |-> [NoIter EXCEPT !.kind = "BTreeMapRangeIterMut", !.keys = r.keys]] :
        r \in range_mut(m, Included(from_key), Excluded(to_key))}

\* impl Iterator / DoubleEndedIterator for the three iterator structs.
BTreeMapRangeIter_next(it, m) == Range_next(it, m)

\* next_back() forwarding to the inner next().
BTreeMapRangeIter_next_back_front(it, m) == Range_next(it, m)
BTreeMapRangeIter_next_back(it, m) == Range_next_back(it, m)

BTreeMapRangeIterMut_next(it, m) == Range_next(it, m)

BTreeMapRangeIterMut_next_back(it, m) == Range_next_back(it, m)

BTreeMapRangeRemoveIter_next(it) == IntoIter_next(it)

BTreeMapRangeRemoveIter_next_back(it) == IntoIter_next_back(it)

BTreeMapRangeRemoveIter_size_hint(it) == IntoIter_size_hint(it)

\* len() taken from the collected map instead of the iterator.
BTreeMapRangeRemoveIter_len_collected(it) == Cardinality(DOMAIN it.owned)
BTreeMapRangeRemoveIter_len(it) == IntoIter_len(it)

\* .map(|(ref k, ref v)| ((**k).clone(), (**v).clone())): the pairs a
\* range iterator yields when driven by next() to its end.
RECURSIVE map_clone(_, _)
map_clone(it, m) ==
    LET r == BTreeMapRangeIter_next(it, m)
    IN IF is_some(r.item) THEN <<unwrap(r.item)>> \o map_clone(r.iter, m)
       ELSE <<>>

\* .collect() into a BTreeMap<K, V>.
RECURSIVE collect(_)
collect(pairs) ==
    IF pairs = <<>> THEN EmptyMap
    ELSE LET n == Len(pairs)
         IN insert(collect(SubSeq(pairs, 1, n - 1)), pairs[n][1], pairs[n][2])

\* for key in ret.keys() { assert!(self.remove(key).is_some()); }
RECURSIVE remove_each(_, _)
remove_each(m, ks) ==
    IF ks = <<>> THEN [map |-> m, assert_failed |-> FALSE]
    ELSE LET r == remove(m, Head(ks))
         IN IF is_some(r.val) THEN remove_each(r.map, Tail(ks))
            ELSE [map |-> r.map, assert_failed |-> TRUE]

range_remove_outcome(m, r) ==
    IF r.panic THEN [panic |-> "range", map |-> m, iter |-> NoIter]
    ELSE LET collected == collect(map_clone(r.iter, m))
             rm        == remove_each(m, keys(collected))
         IN IF rm.assert_failed
            THEN [panic |-> "assert", map |-> rm.map, iter |-> NoIter]
            ELSE [panic |-> "no", map |-> rm.map, iter |-> into_iter(collected)]

\* range_remove_iter() collecting up to and including to_key.
range_remove_iter_to_included(m, from_key, to_key) ==
    {range_remove_outcome(m, r) : r \in range_iter_to_included(m, from_key, to_key)}
\* range_remove_iter() leaving the removal to the consumer of the sequence.
range_remove_iter_deferred(m, from_key, to_key) ==
    {[range_remove_outcome(m, r) EXCEPT !.map = m] :
        r \in range_iter(m, from_key, to_key)}
range_remove_iter(m, from_key, to_key) ==
    {range_remove_outcome(m, r) : r \in range_iter(m, from_key, to_key)}

(***************************************************************************)
(* State.                                                                  *)
(*   map      the BTreeMap                                                 *)
(*   call     the most recent call on the map: its name, its key           *)
(*            arguments (0 where it takes none) and the map before it      *)
(*   ret      what that call returned (None for a call returning an        *)
(*            iterator or nothing)                                         *)
(*   iter     the iterator a range call returned, while it is alive        *)
(*   step     the most recent next()/next_back() on iter and its result    *)
(*   yielded  the items iter has yielded, in the order of the calls, each  *)
(*            with the end it came from                                    *)
(*   written  for range_iter_mut: the value last written through the       *)
(*            handle of each key                                           *)
(*   panicked "no", or which panic ended the program                       *)
(*   run      the current run of first_remove (or of last_remove) calls    *)
(*            with no other call between them: the map it started from     *)
(*            and what each call returned                                  *)
(***************************************************************************)
VARIABLES map, call, ret, iter, step, yielded, written, panicked, run

vars == <<map, call, ret, iter, step, yielded, written, panicked, run>>

NoKey == 0

NoStep == [op |-> "none", item |-> None]

Called(op, k1, k2) == [op |-> op, k1 |-> k1, k2 |-> k2, pre |-> map]

NoRun == [op |-> "none", start |-> EmptyMap, results |-> <<>>]

\* The run after call op returned result: a first_remove or last_remove
\* continues the run of its kind or starts one; any other call ends it.
RunAfter(op, result) ==
    IF op \in {"first_remove", "last_remove"}
    THEN IF run.op = op
         THEN [run EXCEPT !.results = Append(@, result)]
         ELSE [op |-> op, start |-> map, results |-> <<result>>]
    ELSE NoRun

\* A run is followed until MaxNone of its calls have returned None.
RunOpen(op) ==
    run.op = op =>
        Len(SelectSeq(run.results, LAMBDA r : r = None)) < MaxNone

Init ==
    /\ map = EmptyMap
    /\ call = [op |-> "new", k1 |-> NoKey, k2 |-> NoKey, pre |-> EmptyMap]
    /\ ret = None
    /\ iter = NoIter
    /\ step = NoStep
    /\ yielded = <<>>
    /\ written = EmptyMap
    /\ panicked = "no"
    /\ run = NoRun

\* The owner may call the map: the program has not panicked, and the
\* iterator of the previous range call has been consumed or dropped (the
\* borrow of range_iter / range_iter_mut has ended).
Idle == panicked = "no" /\ iter.kind = "none"

NoIteration ==
    /\ iter' = NoIter
    /\ step' = NoStep
    /\ yielded' = <<>>
    /\ written' = EmptyMap

Insert(k, v) ==
    /\ Idle
    /\ map' = insert(map, k, v)
    /\ call' = Called("insert", k, NoKey)
    /\ ret' = None
    /\ NoIteration
    /\ run' = NoRun
    /\ UNCHANGED panicked

\* A read-only query that takes the key it located out of the map.
Query_taking(op, k, result) ==
    /\ Idle
    /\ call' = Called(op, k, NoKey)
    /\ ret' = result
    /\ map' = IF is_some(result) THEN remove(map, unwrap(result)).map ELSE map
    /\ NoIteration
    /\ run' = NoRun
    /\ UNCHANGED panicked
\* A read-only query: &self, the map is not touched.
Query(op, k, result) ==
    /\ Idle
    /\ call' = Called(op, k, NoKey)
    /\ ret' = result
    /\ NoIteration
    /\ run' = NoRun
    /\ UNCHANGED <<map, panicked>>

\* A destructive query: &mut self.
QueryRemove(op, k, r) ==
    /\ Idle
    /\ RunOpen(op)
    /\ call' = Called(op, k, NoKey)
    /\ map' = r.map
    /\ ret' = r.ret
    /\ panicked' = IF r.assert_failed THEN "assert" ELSE panicked
    /\ run' = RunAfter(op, r.ret)
    /\ NoIteration

First == Query("first", NoKey, first(map))
Last == Query("last", NoKey, last(map))
Ceiling(q) == Query("ceiling", q, ceiling(map, q))
Floor(q) == Query("floor", q, floor(map, q))
Higher(q) == Query("higher", q, higher(map, q))
Lower(q) == Query("lower", q, lower(map, q))

FirstRemove == QueryRemove("first_remove", NoKey, first_remove(map))
LastRemove == QueryRemove("last_remove", NoKey, last_remove(map))
CeilingRemove(q) == QueryRemove("ceiling_remove", q, ceiling_remove(map, q))
FloorRemove(q) == QueryRemove("floor_remove", q, floor_remove(map, q))
HigherRemove(q) == QueryRemove("higher_remove", q, higher_remove(map, q))
LowerRemove(q) == QueryRemove("lower_remove", q, lower_remove(map, q))

\* A range call with outcome o: the map it leaves, and the iterator it
\* returns or the panic that ends it.
RangeCall(op, a, b, o) ==
    /\ Idle
    /\ call' = Called(op, a, b)
    /\ ret' = None
    /\ map' = o.map
    /\ iter' = o.iter
    /\ panicked' = o.panic
    /\ step' = NoStep
    /\ yielded' = <<>>
    /\ written' = EmptyMap
    /\ run' = NoRun

\* &self / &mut self borrowed by the iterator: the map is as it was.
Borrowed(o) ==
    [panic |-> IF o.panic THEN "range" ELSE "no", map |-> map,
     iter |-> IF o.panic THEN NoIter ELSE o.iter]

RangeIter(a, b) ==
    \E o \in range_iter(map, a, b) : RangeCall("range_iter", a, b, Borrowed(o))

RangeIterMut(a, b) ==
    \E o \in range_iter_mut(map, a, b) :
        RangeCall("range_iter_mut", a, b, Borrowed(o))

RangeRemoveIter(a, b) ==
    \E o \in range_remove_iter(map, a, b) :
        RangeCall("range_remove_iter", a, b, o)

\* One next() or next_back() on the live iterator.
Stepped(op, r) ==
    /\ iter' = r.iter
    /\ step' = [op |-> op, item |-> r.item]
    /\ yielded' = IF is_some(r.item)
                  THEN Append(yielded, [end |-> op, kv |-> unwrap(r.item)])
                  ELSE yielded
    /\ UNCHANGED <<map, call, ret, written, panicked, run>>

IterNext ==
    /\ panicked = "no"
    /\ iter.kind # "none"
    /\ Stepped("next",
         CASE iter.kind = "BTreeMapRangeIter" -> BTreeMapRangeIter_next(iter, map)
           [] iter.kind = "BTreeMapRangeIterMut" -> BTreeMapRangeIterMut_next(iter, map)
           [] OTHER -> BTreeMapRangeRemoveIter_next(iter))

IterNextBack ==
    /\ panicked = "no"
    /\ iter.kind # "none"
    /\ Stepped("next_back",
         CASE iter.kind = "BTreeMapRangeIter" -> BTreeMapRangeIter_next_back(iter, map)
           [] iter.kind = "BTreeMapRangeIterMut" -> BTreeMapRangeIterMut_next_back(iter, map)
           [] OTHER -> BTreeMapRangeRemoveIter_next_back(iter))

\* The keys whose &mut V handle range_iter_mut has handed out.
Handles == {yielded[i].kv[1] : i \in 1..Len(yielded)}

\* *v = w through a handle range_iter_mut yielded (the test's *v += 1).
Write(k, w) ==
    /\ panicked = "no"
    /\ iter.kind = "BTreeMapRangeIterMut"
    /\ k \in Handles
    /\ map' = [map EXCEPT ![k] = w]
    /\ written' = insert(written, k, w)
    /\ UNCHANGED <<call, ret, iter, step, yielded, panicked, run>>

\* The iterator and the handles it gave out go out of scope: the iteration
\* is over and its record is cleared.
Drop ==
    /\ panicked = "no"
    /\ iter.kind # "none"
    /\ call' = [op |-> "drop", k1 |-> NoKey, k2 |-> NoKey, pre |-> map]
    /\ NoIteration
    /\ UNCHANGED <<map, ret, panicked, run>>

Next ==
    \/ \E k \in Keys, v \in Vals : Insert(k, v)
    \/ First
    \/ Last
    \/ \E q \in QueryKeys : Ceiling(q)
    \/ \E q \in QueryKeys : Floor(q)
    \/ \E q \in QueryKeys : Higher(q)
    \/ \E q \in QueryKeys : Lower(q)
    \/ FirstRemove
    \/ LastRemove
    \/ \E q \in QueryKeys : CeilingRemove(q)
    \/ \E q \in QueryKeys : FloorRemove(q)
    \/ \E q \in QueryKeys : HigherRemove(q)
    \/ \E q \in QueryKeys : LowerRemove(q)
    \/ \E a, b \in QueryKeys : RangeIter(a, b)
    \/ \E a, b \in QueryKeys : RangeIterMut(a, b)
    \/ \E a, b \in QueryKeys : RangeRemoveIter(a, b)
    \/ IterNext
    \/ IterNextBack
    \/ \E k \in Keys, w \in Vals : Write(k, w)
    \/ Drop

Spec == Init /\ [][Next]_vars

TypeOK ==
    /\ map \in Maps
    /\ call.pre \in Maps
    /\ panicked \in {"no", "assert", "range"}
    /\ iter.kind \in {"none", "BTreeMapRangeIter", "BTreeMapRangeIterMut",
                      "BTreeMapRangeRemoveIter"}

(***************************************************************************)
(* What the claims speak of, stated over sets of keys.                     *)
(***************************************************************************)

NearestOps == {"ceiling", "floor", "higher", "lower"}
RemoveOps == {"first_remove", "last_remove", "ceiling_remove", "floor_remove",
              "higher_remove", "lower_remove"}
RangeOps == {"range_iter", "range_iter_mut", "range_remove_iter"}

\* The keys of m that satisfy the condition of query op at query key q.
Matching(op, m, q) ==
    CASE op = "ceiling" -> {k \in DOMAIN m : k >= q}
      [] op = "floor"   -> {k \in DOMAIN m : k <= q}
      [] op = "higher"  -> {k \in DOMAIN m : k > q}
      [] op = "lower"   -> {k \in DOMAIN m : k < q}
      [] OTHER          -> DOMAIN m

IsLeast(x, S) == x \in S /\ \A y \in S : x <= y
IsGreatest(x, S) == x \in S /\ \A y \in S : x >= y

\* The non-destructive query a destructive query is the form of.
QueryOf(op, m, q) ==
    CASE op = "first_remove"   -> first(m)
      [] op = "last_remove"    -> last(m)
      [] op = "ceiling_remove" -> ceiling(m, q)
      [] op = "floor_remove"   -> floor(m, q)
      [] op = "higher_remove"  -> higher(m, q)
      [] op = "lower_remove"   -> lower(m, q)

\* The keys of m in the half-open interval [a, b).
InRange(m, a, b) == {k \in DOMAIN m : a <= k /\ k < b}

\* The entries of m with keys in [a, b), ascending by key.
ExpectedPairs(m, a, b) ==
    LET S  == InRange(m, a, b)
        ks == CHOOSE f \in [1..Cardinality(S) -> S] :
                 \A i, j \in 1..Cardinality(S) : i < j => f[i] < f[j]
    IN [i \in 1..Cardinality(S) |-> <<ks[i], m[ks[i]]>>]

Reverse(s) == [i \in 1..Len(s) |-> s[Len(s) + 1 - i]]

Kv(ys) == [i \in 1..Len(ys) |-> ys[i].kv]
Fronts == Kv(SelectSeq(yielded, LAMBDA y : y.end = "next"))
Backs == Kv(SelectSeq(yielded, LAMBDA y : y.end = "next_back"))
AllFront == \A i \in 1..Len(yielded) : yielded[i].end = "next"
AllBack == \A i \in 1..Len(yielded) : yielded[i].end = "next_back"

\* The entries the live iterator has yet to yield, front to back: a
\* by-value iterator owns them, a borrowing one reads them from the map.
Rest ==
    LET m == IF iter.kind = "BTreeMapRangeRemoveIter" THEN iter.owned ELSE map
    IN [i \in 1..Len(iter.keys) |-> <<iter.keys[i], m[iter.keys[i]]>>]

\* The whole sequence of the iteration, front to back: what next() gave,
\* what is left, and what next_back() gave, last taken first.
Sequence == Fronts \o Rest \o Reverse(Backs)

\* The last next()/next_back() found the iterator exhausted.
Exhausted == step.op # "none" /\ step.item = None

\* The call op returned (it did not panic); its iterator, if any, is live.
Returned(op) == call.op = op /\ panicked = "no"

(***************************************************************************)
(* Claims.                                                                 *)
(***************************************************************************)

C2_DestructiveQuery ==
    call.op \in RemoveOps =>
        LET located == QueryOf(call.op, call.pre, call.k1)
        IN IF is_some(located)
           THEN LET x == unwrap(located)
                IN /\ ret = Some(<<x, call.pre[x]>>)
                   /\ DOMAIN map = (DOMAIN call.pre) \ {x}
                   /\ \A k \in DOMAIN map : map[k] = call.pre[k]
           ELSE ret = None /\ map = call.pre

\* C2 witness: higher_remove removed a key and left another entry behind.
C2_Witness ==
    /\ call.op = "higher_remove"
    /\ is_some(ret)
    /\ unwrap(ret)[1] > call.k1
    /\ map # EmptyMap

\* C3: range_remove_iter(a, b) yields exactly the pairs with a <= key < b at
\* call time, ascending, and once it has returned the map is the original
\* minus those pairs: range_iter(a, b) on it is empty and the entries outside
\* [a, b) are present with their values.
C3_RangeRemove ==
    call.op = "range_remove_iter" =>
        /\ Sequence = ExpectedPairs(call.pre, call.k1, call.k2)
        /\ (AllFront /\ Exhausted) =>
               Kv(yielded) = ExpectedPairs(call.pre, call.k1, call.k2)
        /\ DOMAIN map = (DOMAIN call.pre) \ InRange(call.pre, call.k1, call.k2)
        /\ \A k \in DOMAIN map : map[k] = call.pre[k]
        /\ \A o \in range_iter(map, call.k1, call.k2) :
               ~o.panic => o.iter.keys = <<>>

\* C3 witness: the returned sequence was drained by next(), it held a pair,
\* and an entry outside the interval is left in the map.
C3_Witness ==
    /\ Returned("range_remove_iter")
    /\ AllFront /\ Exhausted
    /\ Len(yielded) >= 1
    /\ map # EmptyMap

\* C4: range_iter(a, b) consumed front to back yields exactly the entries
\* with a <= key < b, each once, strictly ascending, with the map's values;
\* a is included when present and b is never yielded.
C4_RangeIter ==
    (call.op = "range_iter" /\ AllFront) =>
        LET E == ExpectedPairs(call.pre, call.k1, call.k2)
        IN /\ Len(yielded) <= Len(E)
           /\ Kv(yielded) = SubSeq(E, 1, Len(yielded))
           /\ Exhausted => Kv(yielded) = E
           /\ \A i, j \in 1..Len(yielded) :
                  i < j => yielded[i].kv[1] < yielded[j].kv[1]
           /\ \A i \in 1..Len(yielded) : yielded[i].kv[1] # call.k2
           /\ (Len(yielded) >= 1 /\ call.k1 \in DOMAIN call.pre
                 /\ call.k1 < call.k2) => yielded[1].kv[1] = call.k1
           /\ map = call.pre

\* C4 witness: a and b are both keys of the map and the iteration ran to its
\* end, yielding a.
C4_Witness ==
    /\ Returned("range_iter")
    /\ AllFront /\ Exhausted
    /\ call.k1 \in DOMAIN map /\ call.k2 \in DOMAIN map
    /\ Len(yielded) >= 1

\* C5: with from >= to each range operation yields an empty, immediately
\* exhausted sequence, raises no failure and leaves the map unchanged.
C5_EmptyOnInvertedRange ==
    (call.op \in RangeOps /\ call.k1 >= call.k2) =>
        /\ panicked = "no"
        /\ iter.keys = <<>>
        /\ yielded = <<>>
        /\ step.op # "none" => step.item = None
        /\ map = call.pre

\* C6: in every destructive query and in range_remove_iter the removal of a
\* located key succeeds: the assertion never fails, and on the empty map the
\* operations return None or an empty sequence.
C6_LocateImpliesRemovable ==
    /\ panicked # "assert"
    /\ (call.op \in RemoveOps /\ is_some(QueryOf(call.op, call.pre, call.k1)))
           => is_some(ret)
    /\ (call.op \in RemoveOps /\ call.pre = EmptyMap)
           => (ret = None /\ map = EmptyMap)
    /\ (call.op = "range_remove_iter" /\ call.pre = EmptyMap)
           => (Sequence = <<>> /\ map = EmptyMap)

\* C6 witness: range_remove_iter located two keys and removed both.
C6_Witness ==
    /\ Returned("range_remove_iter")
    /\ Cardinality(DOMAIN call.pre) - Cardinality(DOMAIN map) = 2

\* C7: first() is the least key and last() the greatest, so
\* first() <= k <= last() for every key k; both are None exactly when the map
\* is empty.
C7_FirstLast ==
    call.op \in {"first", "last"} =>
        /\ (ret = None) <=> (call.pre = EmptyMap)
        /\ is_some(ret) =>
              IF call.op = "first"
              THEN IsLeast(unwrap(ret), DOMAIN call.pre)
              ELSE IsGreatest(unwrap(ret), DOMAIN call.pre)
        /\ \A k \in DOMAIN map :
              unwrap(first(map)) <= k /\ k <= unwrap(last(map))

\* C7 witness: first() on a map of two keys.
C7_Witness ==
    /\ call.op = "first"
    /\ Cardinality(DOMAIN map) >= 2
    /\ is_some(ret)

\* C8: writing through a handle range_iter_mut(a, b) yielded changes the
\* value in place: the key set is as before, every key in [a, b) holds the
\* value last written to it or its original value, and every entry outside
\* [a, b) is unchanged.
C8_RangeIterMut ==
    call.op = "range_iter_mut" =>
        /\ DOMAIN map = DOMAIN call.pre
        /\ Handles \subseteq InRange(call.pre, call.k1, call.k2)
        /\ DOMAIN written \subseteq InRange(call.pre, call.k1, call.k2)
        /\ \A k \in DOMAIN map :
              map[k] = IF k \in DOMAIN written THEN written[k] ELSE call.pre[k]

\* C8 witness: the iteration is over, a value in the interval was changed
\* through its handle, and an entry outside the interval exists.
C8_Witness ==
    /\ Returned("range_iter_mut")
    /\ Exhausted
    /\ \E k \in DOMAIN written : map[k] # call.pre[k]
    /\ (DOMAIN map) \ InRange(map, call.k1, call.k2) # {}

\* C9: the sequence range_remove_iter returned reports its exact remaining
\* length: len() and both bounds of size_hint are the number of keys in
\* [a, b) at call time less the items yielded so far, and are 0 exactly when
\* the sequence is exhausted.
C9_ExactLength ==
    call.op = "range_remove_iter" =>
        LET n == BTreeMapRangeRemoveIter_len(iter)
        IN /\ n = Cardinality(InRange(call.pre, call.k1, call.k2)) - Len(yielded)
           /\ BTreeMapRangeRemoveIter_size_hint(iter) = <<n, Some(n)>>
           /\ (n = 0) <=> (BTreeMapRangeRemoveIter_next(iter).item = None)
           /\ (n = 0) <=> (BTreeMapRangeRemoveIter_next_back(iter).item = None)
           /\ Exhausted => n = 0

\* C9 witness: a sequence of two pairs after one was taken: len() is 1.
C9_Witness ==
    /\ Returned("range_remove_iter")
    /\ Len(yielded) = 1
    /\ BTreeMapRangeRemoveIter_len(iter) = 1

\* C10: range_iter and range_iter_mut consumed from the back yield the same
\* entries as forward traversal in strictly descending key order; under any
\* interleaving of next and next_back every entry of [a, b) is yielded
\* exactly once and the iterator is exhausted when the two ends meet.
C10_DoubleEnded ==
    call.op \in {"range_iter", "range_iter_mut"} =>
        LET E == ExpectedPairs(call.pre, call.k1, call.k2)
        IN /\ Fronts \o [i \in 1..Len(iter.keys) |->
                           <<iter.keys[i], call.pre[iter.keys[i]]>>]
                     \o Reverse(Backs) = E
           /\ AllBack =>
                 /\ Len(yielded) <= Len(E)
                 /\ Kv(yielded) = SubSeq(Reverse(E), 1, Len(yielded))
                 /\ \A i, j \in 1..Len(yielded) :
                        i < j => yielded[i].kv[1] > yielded[j].kv[1]
           /\ Exhausted => Len(yielded) = Len(E)
           /\ Len(yielded) = Len(E) =>
                 /\ Range_next(iter, map).item = None
                 /\ Range_next_back(iter, map).item = None

\* C10 witness: two entries taken one from each end, after which the
\* iterator was found exhausted.
C10_Witness ==
    /\ Returned("range_iter")
    /\ Len(yielded) = 2
    /\ yielded[1].end = "next" /\ yielded[2].end = "next_back"
    /\ Exhausted


\* C11 as stated: the removal of the entries in [from, to) becomes
\* observable in the map only once the sequence range_remove_iter returned
\* has been drained, not before.
C11_RemovalOnlyOnceDrained ==
    (Returned("range_remove_iter") /\ BTreeMapRangeRemoveIter_len(iter) > 0)
        => map = call.pre

\* C11 as amended: the entries in [from, to) are gone from the map as soon as
\* range_remove_iter has returned, before any item is taken, and taking
\* items changes nothing in the map: the map lacks every key of the
\* interval, and holds the original number of entries less those the
\* sequence holds or has yielded.
C11_RemovalAtCall ==
    Returned("range_remove_iter") =>
        /\ (DOMAIN map) \cap InRange(call.pre, call.k1, call.k2) = {}
        /\ Cardinality(DOMAIN map) =
              Cardinality(DOMAIN call.pre)
                - (BTreeMapRangeRemoveIter_len(iter) + Len(yielded))

\* C11 witness: range_remove_iter has just returned a sequence holding a
\* pair, nothing has been taken from it, and the map has already changed.
C11_Witness ==
    /\ Returned("range_remove_iter")
    /\ step.op = "none" /\ yielded = <<>>
    /\ BTreeMapRangeRemoveIter_len(iter) >= 1
    /\ map # call.pre

\* C12: first, last, ceiling, floor, higher and lower have no side effects:
\* the entries of the map after the call are those before the call.
C12_ReadOnlyQueries ==
    call.op \in {"first", "last"} \cup NearestOps =>
        /\ DOMAIN map = DOMAIN call.pre
        /\ \A k \in DOMAIN call.pre : map[k] = call.pre[k]
        /\ panicked = "no"

\* C12 witness: floor() located a key of a map of two entries.
C12_Witness ==
    /\ call.op = "floor"
    /\ is_some(ret)
    /\ Cardinality(DOMAIN call.pre) >= 2

\* Every entry of m, ascending by key.
Entries(m) ==
    LET S  == DOMAIN m
        ks == CHOOSE f \in [1..Cardinality(S) -> S] :
                 \A i, j \in 1..Cardinality(S) : i < j => f[i] < f[j]
    IN [i \in 1..Cardinality(S) |-> <<ks[i], m[ks[i]]>>]

\* C13: from a map of n entries, repeated first_remove returns the entries
\* one by one in strictly ascending key order (last_remove: descending), the
\* size of the map goes down by one with each Some, and the (n+1)-th call and
\* every later one return None with the map empty; no entry is returned
\* twice or skipped.
C13_RepeatedEndpointRemove ==
    run.op \in {"first_remove", "last_remove"} =>
        LET all   == IF run.op = "first_remove" THEN Entries(run.start)
                     ELSE Reverse(Entries(run.start))
            n     == Len(all)
            c     == Len(run.results)
            taken == IF c < n THEN c ELSE n
        IN /\ \A i \in 1..c :
                  run.results[i] = IF i <= n THEN Some(all[i]) ELSE None
           /\ \A i, j \in 1..taken :
                  i < j => IF run.op = "first_remove"
                           THEN all[i][1] < all[j][1]
                           ELSE all[i][1] > all[j][1]
           /\ Cardinality(DOMAIN map) = n - taken
           /\ DOMAIN map = {all[i][1] : i \in (taken + 1)..n}
           /\ \A k \in DOMAIN map : map[k] = run.start[k]
           /\ c > n => map = EmptyMap
           /\ panicked = "no"

\* C13 witness: first_remove called four times in a row on a map of two
\* entries: two entries, then None twice.
C13_Witness ==
    /\ run.op = "first_remove"
    /\ Cardinality(DOMAIN run.start) = 2
    /\ Len(run.results) = 4
    /\ map = EmptyMap

=============================================================================
